---- MODULE Spec2Model ----
(***************************************************************************)
(* Model of backend/main.py of sugya-app: the request pipeline of the two  *)
(* chat endpoints (body validation, route-level rate limit, credential     *)
(* check, system-message filter, size budget, completion relay), the       *)
(* streaming generator, and the hourly session counter.                    *)
(*                                                                         *)
(* Text is modelled as a sequence of tokens.  A token is a block of        *)
(* characters (a word, one whitespace character, or a filler block); the   *)
(* text is the concatenation of its tokens.  The alphabet is chosen so     *)
(* that no pattern word or keyword lies inside, or straddles, other        *)
(* tokens, so substring and regular-expression search on the text are      *)
(* searches for contiguous token runs.                                     *)
(***************************************************************************)
EXTENDS Integers, Sequences, FiniteSets, TLC

VARIABLES
    api_key,          \* truthiness of client.api_key
    now,              \* time.time(), in seconds
    limiter_storage,  \* slowapi in-memory storage: key -> [count, expiry]
    session_store,    \* session_store: address -> [seen, count, last_reset]
    req,              \* the request being handled, and its arrival time
    resp,             \* the HTTP response to it
    filtered,         \* filtered_messages handed to the relay
    pc,               \* position of the streaming generator
    out,              \* chunks the generator has yielded
    prov_hist,        \* deltas the provider stream has produced
    provider_calls,   \* client.chat.completions.create calls for req
    hits,             \* history: per limiter key, {<<time, n>>} of admitted requests
    served,           \* history: per resolved address, requests served since .since
    nreq,             \* requests handled so far
    nticks,           \* clock steps taken so far
    call,             \* a direct call of a function: [fn, messages, error, raised, result]
    addr_hits,        \* history: per route and resolved address, as hits
    client,           \* the client of the streaming response: "connected" or "gone"
    tasks,            \* the calls of check_session_limits in progress, per caller
    permitted         \* history: per address, calls permitted since its last reset

vars == <<api_key, now, limiter_storage, session_store, req, resp, filtered,
          pc, out, prov_hist, provider_calls, hits, served, nreq, nticks, call,
          addr_hits, client, tasks, permitted>>

(***************************************************************************)
(* Bounds of the exploration.                                              *)
(***************************************************************************)
MaxMsgs == 2
MaxIncrements == 2
MaxRequests == 2
MaxTicks == 1

(***************************************************************************)
(* Tokens, their character counts and str.lower().                         *)
(***************************************************************************)
XBLOCK == "x*2500"

Spaces == {" ", "\n"}

Lower(tok) ==
    CASE tok = "JAILBREAK" -> "jailbreak"
      [] tok = "Mode"      -> "mode"
      [] tok = "IGNORE"    -> "ignore"
      [] tok = "All"       -> "all"
      [] tok = "RAVA"      -> "rava"
      [] tok = "Abaye"     -> "abaye"
      [] OTHER             -> tok

TokLen(tok) ==
    CASE tok = XBLOCK          -> 2500
      [] tok \in Spaces        -> 1
      [] tok = "he:rava"       -> 3
      [] tok = "he:abaye"      -> 4
      [] tok = "he:chavruta"   -> 6
      [] tok = "he:digitalit"  -> 8
      [] tok = "he:yeush"      -> 5
      [] tok = "he:shelo"      -> 3
      [] tok = "he:midaat"     -> 4
      [] OTHER                 -> Len(tok)

RECURSIVE StrLen(_)
StrLen(s) == IF s = <<>> THEN 0 ELSE TokLen(Head(s)) + StrLen(Tail(s))

StrLower(s) == [i \in 1..Len(s) |-> Lower(s[i])]

(***************************************************************************)
(* Security constants.                                                     *)
(***************************************************************************)
MAX_MESSAGE_LENGTH == 5000
MAX_MESSAGES_PER_REQUEST == 50

\* Each pattern is word (\s+ word)*: the sequence of its words.
SUSPICIOUS_PATTERNS ==
    << <<"ignore", "all", "previous", "instructions">>,
       <<"you", "are", "now", "chatgpt">>,
       <<"forget", "everything", "above">>,
       <<"new", "system", "instructions">>,
       <<"override", "system", "prompt">>,
       <<"jailbreak", "mode">> >>

\* The pattern's words from the k-th on match s at position i; between two
\* words, one or more whitespace characters.  re.IGNORECASE folds both sides.
RECURSIVE MatchAt(_, _, _, _)
MatchAt(pat, k, s, i) ==
    /\ i <= Len(s)
    /\ Lower(s[i]) = Lower(pat[k])
    /\ \/ k = Len(pat)
       \/ \E j \in (i + 2)..Len(s) :
            /\ \A m \in (i + 1)..(j - 1) : s[m] \in Spaces
            /\ MatchAt(pat, k + 1, s, j)

re_search(pat, s) == \E i \in 1..Len(s) : MatchAt(pat, 1, s, i)

(***************************************************************************)
(* ChatRequest.validate_messages: "ok", or the ValueError it raises.       *)
(* A message is [isdict, keys, role, content]; role and content are read   *)
(* only when their key is present.                                         *)
(***************************************************************************)
\* Mutant: the pattern search only on the messages of the user.
RECURSIVE ValidateLoopUserOnly(_, _)
ValidateLoopUserOnly(messages, i) ==
    IF i > Len(messages) THEN "ok"
    ELSE LET msg == messages[i] IN
         IF ~msg.isdict \/ "role" \notin msg.keys \/ "content" \notin msg.keys
         THEN "Invalid message format"
         ELSE IF StrLen(msg.content) > MAX_MESSAGE_LENGTH
         THEN "Message too long"
         ELSE LET content_lower == StrLower(msg.content) IN
              IF /\ msg.role = "user"
                 /\ \E p \in 1..Len(SUSPICIOUS_PATTERNS) :
                       re_search(SUSPICIOUS_PATTERNS[p], content_lower)
              THEN "Message contains suspicious content"
              ELSE ValidateLoopUserOnly(messages, i + 1)

RECURSIVE ValidateLoop(_, _)
ValidateLoop(messages, i) ==
    IF i > Len(messages) THEN "ok"
    ELSE LET msg == messages[i] IN
         IF ~msg.isdict \/ "role" \notin msg.keys \/ "content" \notin msg.keys
         THEN "Invalid message format"
         ELSE IF StrLen(msg.content) > MAX_MESSAGE_LENGTH
         THEN "Message too long"
         ELSE LET content_lower == StrLower(msg.content) IN
              IF \E p \in 1..Len(SUSPICIOUS_PATTERNS) :
                    re_search(SUSPICIOUS_PATTERNS[p], content_lower)
              THEN "Message contains suspicious content"
              ELSE ValidateLoop(messages, i + 1)

\* Mutant: no check of the number of messages.
validate_messages_uncounted(messages) == ValidateLoop(messages, 1)

validate_messages(messages) ==
    IF Len(messages) = 0 \/ Len(messages) > MAX_MESSAGES_PER_REQUEST
    THEN "Messages must be between 1 and 50"
    ELSE ValidateLoop(messages, 1)

(***************************************************************************)
(* filter_system_messages.                                                 *)
(***************************************************************************)
allowed_system_content ==
    { <<"he:chavruta", " ", "he:digitalit">>,
      <<"he:yeush", " ", "he:shelo", " ", "he:midaat">>,
      <<"he:abaye">>, <<"he:rava">>,
      <<"chavruta">>, <<"abaye">>, <<"rava">> }

\* keyword in text: the keyword occurs as a contiguous run.
Contains(s, kw) ==
    \E i \in 1..(Len(s) - Len(kw) + 1) : SubSeq(s, i, i + Len(kw) - 1) = kw

\* msg.get("role"): None when the key is absent.
GetRole(msg) == IF msg.isdict /\ "role" \in msg.keys THEN msg.role ELSE "None"

\* Mutant: the keyword test on the content as sent, not lowercased.
RECURSIVE FilterLoopNoLower(_, _, _)
FilterLoopNoLower(messages, i, filtered_messages) ==
    IF i > Len(messages) THEN filtered_messages
    ELSE LET msg == messages[i] IN
         IF GetRole(msg) = "system"
         THEN IF \E keyword \in allowed_system_content :
                    Contains(msg.content, StrLower(keyword))
              THEN FilterLoopNoLower(messages, i + 1, Append(filtered_messages, msg))
              ELSE FilterLoopNoLower(messages, i + 1, filtered_messages)
         ELSE FilterLoopNoLower(messages, i + 1, Append(filtered_messages, msg))

\* Mutant: a dropped message removed while iterating, so that the message
\* after it is kept without being examined.
RECURSIVE FilterLoopSkip(_, _, _)
FilterLoopSkip(messages, i, filtered_messages) ==
    IF i > Len(messages) THEN filtered_messages
    ELSE LET msg == messages[i] IN
         IF GetRole(msg) = "system"
         THEN LET content_lower == StrLower(msg.content) IN
              IF \E keyword \in allowed_system_content :
                    Contains(content_lower, StrLower(keyword))
              THEN FilterLoopSkip(messages, i + 1, Append(filtered_messages, msg))
              ELSE IF i + 1 <= Len(messages)
                   THEN FilterLoopSkip(messages, i + 2,
                                       Append(filtered_messages, messages[i + 1]))
                   ELSE filtered_messages
         ELSE FilterLoopSkip(messages, i + 1, Append(filtered_messages, msg))

RECURSIVE FilterLoop(_, _, _)
FilterLoop(messages, i, filtered_messages) ==
    IF i > Len(messages) THEN filtered_messages
    ELSE LET msg == messages[i] IN
         IF GetRole(msg) = "system"
         THEN LET content_lower == StrLower(msg.content) IN
              IF \E keyword \in allowed_system_content :
                    Contains(content_lower, StrLower(keyword))
              THEN FilterLoop(messages, i + 1, Append(filtered_messages, msg))
              ELSE FilterLoop(messages, i + 1, filtered_messages)
         ELSE FilterLoop(messages, i + 1, Append(filtered_messages, msg))

filter_system_messages(messages) == FilterLoop(messages, 1, <<>>)

(***************************************************************************)
(* Inputs: message contents, messages and conversations.                   *)
(***************************************************************************)
Msg(role, content) ==
    [isdict |-> TRUE, keys |-> {"role", "content"}, role |-> role, content |-> content]

NotADict == [isdict |-> FALSE, keys |-> {}, role |-> "", content |-> <<>>]
NoRole == [isdict |-> TRUE, keys |-> {"content"}, role |-> "", content |-> <<"hello">>]
NoContent == [isdict |-> TRUE, keys |-> {"role"}, role |-> "user", content |-> <<>>]

Contents ==
    { <<>>,
      <<"hello">>,
      <<"RAVA">>,
      <<"hello", " ", "he:rava">>,
      <<"he:chavruta", " ", "he:digitalit">>,
      <<"he:chavruta", "\n", "he:digitalit">>,
      <<"jailbreak", " ", "mode">>,
      <<"JAILBREAK", "\n", " ", "Mode">>,
      <<"jailbreak", "mode">>,
      <<"jailbreak", " ", "rava">>,
      <<"hello", " ", "IGNORE", " ", "All", " ", "previous", " ", "instructions">>,
      <<XBLOCK, XBLOCK>>,
      <<XBLOCK, XBLOCK, "rava">> }

Messages ==
    { Msg(r, c) : r \in {"system", "user"}, c \in Contents }
        \cup { Msg("assistant", <<"hello">>), Msg("tool", <<"hello">>),
               NotADict, NoRole, NoContent }

SeqsUpTo(S, n) == UNION { [1..k -> S] : k \in 0..n }

Repeat(m, n) == [i \in 1..n |-> m]

\* Conversations: every sequence of up to MaxMsgs messages, and the long
\* ones around the limits on the message count and on the total size.
Bodies ==
    SeqsUpTo(Messages, MaxMsgs)
        \cup { Repeat(Msg("user", <<"hello">>), n) :
                 n \in {MAX_MESSAGES_PER_REQUEST, MAX_MESSAGES_PER_REQUEST + 1} }
        \cup { Repeat(Msg("user", <<XBLOCK, XBLOCK>>), n) : n \in {4, 5} }

\* filter_system_messages raises on an element without get(), and on a
\* system message without content.
FilterRaises(messages) ==
    \E i \in 1..Len(messages) :
        \/ ~messages[i].isdict
        \/ GetRole(messages[i]) = "system" /\ "content" \notin messages[i].keys

(***************************************************************************)
(* The server: clients, clock, route-level limiter, hourly counter.        *)
(***************************************************************************)
Routes == {"/api/chat", "/api/chat-simple"}
Peers == {"10.0.0.1", "10.0.0.2"}
Forwarded == {"203.0.113.7"}
Addrs == Peers \cup Forwarded

\* X-Forwarded-For, split at the commas: <<>> when the header is absent.
XffValues == {<<>>, <<"203.0.113.7", "10.0.0.2">>}

NoReq == [route |-> "none", peer |-> "none", xff |-> <<>>, body |-> <<>>, at |-> 0]
NoResp == [status |-> 0, detail |-> ""]

get_client_ip(r) == IF r.xff # <<>> THEN r.xff[1] ELSE r.peer

\* @limiter.limit("100/minute"): 100 hits per window of 60 seconds.
RATE_LIMIT == 100
RATE_WINDOW == 60

\* The limiter's key: the route and get_remote_address(request).
Keys == Routes \X Peers
LimitKey(r) == <<r.route, r.peer>>

NoEntry == [count |-> 0, expiry |-> 0]

\* The storage's get: an entry whose expiry has come is dropped.
LimiterGet(store, key, time) == IF store[key].expiry <= time THEN 0 ELSE store[key].count

\* The storage's incr under the fixed-window strategy (the Limiter's
\* default): the first hit of a window sets its expiry, later ones keep it.
LimiterIncr(store, key, time) ==
    LET count == LimiterGet(store, key, time) IN
    [count  |-> count + 1,
     expiry |-> IF count = 0 THEN time + RATE_WINDOW ELSE store[key].expiry]

\* check_session_limits(client_ip): the record it leaves and what it returns.
SESSION_LIMIT == 1000
SESSION_WINDOW == 3600

NoSession == [seen |-> FALSE, count |-> 0, last_reset |-> 0]

\* The requests that call check_session_limits at the same time, and a call
\* of it: the line it is at, its argument, its locals and what it returned.
Tasks == {"t1", "t2"}
NoTask ==
    [pc |-> "ready", client_ip |-> "", current_time |-> 0, count |-> 0, ret |-> "None",
     entry |-> NoSession, was_reset |-> FALSE]

check_session_limits(store, client_ip, current_time) ==
    LET session == IF store[client_ip].seen THEN store[client_ip]
                   ELSE [seen |-> TRUE, count |-> 0, last_reset |-> current_time]
        reset == IF current_time - session.last_reset > SESSION_WINDOW
                 THEN [session EXCEPT !.count = 0, !.last_reset = current_time]
                 ELSE session
    IN IF reset.count >= SESSION_LIMIT
       THEN [ret |-> FALSE, store |-> [store EXCEPT ![client_ip] = reset]]
       ELSE [ret |-> TRUE,
             store |-> [store EXCEPT ![client_ip] = [reset EXCEPT !.count = reset.count + 1]]]

(***************************************************************************)
(* The two endpoints, from the first line of the handler to its return or  *)
(* raise: [status, detail, filtered, calls, pc, events].  The provider's   *)
(* answer to the non-streaming call is the input outcome.                  *)
(***************************************************************************)
CHAT_MAX_CHARS == 20000
SIMPLE_MAX_CHARS == 5000

ProviderErrors == {"Request timed out.", "Connection error."}

NONE == "None"
DeltaContents == {"Hel", "lo", NONE}

RECURSIVE total_chars(_)
total_chars(messages) ==
    IF messages = <<>> THEN 0
    ELSE StrLen(Head(messages).content) + total_chars(Tail(messages))

Raise(status, detail) ==
    [status |-> status, detail |-> detail, filtered |-> <<>>, calls |-> 0,
     pc |-> "idle", events |-> <<>>]

\* Mutant: no check that the filter left a message.
chat_unchecked(key_set, r) ==
    IF ~key_set THEN Raise(500, "OpenAI API key not set")
    ELSE IF FilterRaises(r.body) THEN Raise(500, "Failed to process request")
    ELSE LET filtered_messages == filter_system_messages(r.body) IN
         IF total_chars(filtered_messages) > CHAT_MAX_CHARS
         THEN [Raise(400, "Request too large") EXCEPT !.filtered = filtered_messages]
         ELSE [status |-> 200, detail |-> "text/event-stream",
               filtered |-> filtered_messages, calls |-> 0,
               pc |-> "connecting", events |-> <<>>]

chat(key_set, r) ==
    IF ~key_set THEN Raise(500, "OpenAI API key not set")
    ELSE IF FilterRaises(r.body) THEN Raise(500, "Failed to process request")
    ELSE LET filtered_messages == filter_system_messages(r.body) IN
         IF filtered_messages = <<>> THEN Raise(400, "No valid messages provided")
         ELSE IF total_chars(filtered_messages) > CHAT_MAX_CHARS
         THEN [Raise(400, "Request too large") EXCEPT !.filtered = filtered_messages]
         ELSE [status |-> 200, detail |-> "text/event-stream",
               filtered |-> filtered_messages, calls |-> 0,
               pc |-> "connecting", events |-> <<>>]

\* Mutant: no check of the credential.
chat_simple_unkeyed(key_set, r, outcome) ==
    IF FilterRaises(r.body) THEN Raise(500, "Failed to process request")
    ELSE LET filtered_messages == filter_system_messages(r.body) IN
         IF filtered_messages = <<>> THEN Raise(400, "No valid messages provided")
         ELSE IF total_chars(filtered_messages) > SIMPLE_MAX_CHARS
         THEN [Raise(400, "Request too large") EXCEPT !.filtered = filtered_messages]
         ELSE IF outcome = "ok"
         THEN [status |-> 200, detail |-> "message", filtered |-> filtered_messages,
               calls |-> 1, pc |-> "idle",
               events |-> <<[kind |-> "message", content |-> ""]>>]
         ELSE [status |-> 500, detail |-> "Failed to process request",
               filtered |-> filtered_messages, calls |-> 1, pc |-> "idle",
               events |-> <<[kind |-> "raise", content |-> outcome]>>]

\* Mutant: the size ceiling of the streaming route.
chat_simple_wide(key_set, r, outcome) ==
    IF ~key_set THEN Raise(500, "OpenAI API key not set")
    ELSE IF FilterRaises(r.body) THEN Raise(500, "Failed to process request")
    ELSE LET filtered_messages == filter_system_messages(r.body) IN
         IF filtered_messages = <<>> THEN Raise(400, "No valid messages provided")
         ELSE IF total_chars(filtered_messages) > CHAT_MAX_CHARS
         THEN [Raise(400, "Request too large") EXCEPT !.filtered = filtered_messages]
         ELSE IF outcome = "ok"
         THEN [status |-> 200, detail |-> "message", filtered |-> filtered_messages,
               calls |-> 1, pc |-> "idle",
               events |-> <<[kind |-> "message", content |-> ""]>>]
         ELSE [status |-> 500, detail |-> "Failed to process request",
               filtered |-> filtered_messages, calls |-> 1, pc |-> "idle",
               events |-> <<[kind |-> "raise", content |-> outcome]>>]

\* Mutant: the provider's exception passed on as the detail of the error.
chat_simple_leaky(key_set, r, outcome) ==
    IF ~key_set THEN Raise(500, "OpenAI API key not set")
    ELSE IF FilterRaises(r.body) THEN Raise(500, "Failed to process request")
    ELSE LET filtered_messages == filter_system_messages(r.body) IN
         IF filtered_messages = <<>> THEN Raise(400, "No valid messages provided")
         ELSE IF total_chars(filtered_messages) > SIMPLE_MAX_CHARS
         THEN [Raise(400, "Request too large") EXCEPT !.filtered = filtered_messages]
         ELSE IF outcome = "ok"
         THEN [status |-> 200, detail |-> "message", filtered |-> filtered_messages,
               calls |-> 1, pc |-> "idle",
               events |-> <<[kind |-> "message", content |-> ""]>>]
         ELSE [status |-> 500, detail |-> outcome,
               filtered |-> filtered_messages, calls |-> 1, pc |-> "idle",
               events |-> <<[kind |-> "raise", content |-> outcome]>>]

chat_simple(key_set, r, outcome) ==
    IF ~key_set THEN Raise(500, "OpenAI API key not set")
    ELSE IF FilterRaises(r.body) THEN Raise(500, "Failed to process request")
    ELSE LET filtered_messages == filter_system_messages(r.body) IN
         IF filtered_messages = <<>> THEN Raise(400, "No valid messages provided")
         ELSE IF total_chars(filtered_messages) > SIMPLE_MAX_CHARS
         THEN [Raise(400, "Request too large") EXCEPT !.filtered = filtered_messages]
         ELSE IF outcome = "ok"
         THEN [status |-> 200, detail |-> "message", filtered |-> filtered_messages,
               calls |-> 1, pc |-> "idle",
               events |-> <<[kind |-> "message", content |-> ""]>>]
         ELSE [status |-> 500, detail |-> "Failed to process request",
               filtered |-> filtered_messages, calls |-> 1, pc |-> "idle",
               events |-> <<[kind |-> "raise", content |-> outcome]>>]

Endpoint(key_set, r, outcome) ==
    IF r.route = "/api/chat" THEN chat(key_set, r) ELSE chat_simple(key_set, r, outcome)

(***************************************************************************)
(* Direct calls of the two pure functions.                                 *)
(***************************************************************************)
NoCall == [fn |-> "none", messages |-> <<>>, error |-> "", raised |-> FALSE, result |-> <<>>]

Idle ==
    /\ limiter_storage = [k \in Keys |-> NoEntry]
    /\ session_store = [a \in Addrs |-> NoSession]
    /\ req = NoReq
    /\ resp = NoResp
    /\ filtered = <<>>
    /\ pc = "idle"
    /\ out = <<>>
    /\ prov_hist = <<>>
    /\ provider_calls = 0
    /\ hits = [k \in Keys |-> {}]
    /\ served = [a \in Addrs |-> [since |-> 0, n |-> 0]]
    /\ nreq = 0
    /\ nticks = 0
    /\ addr_hits = [k \in Routes \X Addrs |-> {}]
    /\ client = "connected"
    /\ tasks = [t \in Tasks |-> NoTask]
    /\ permitted = [a \in Addrs |-> 0]

InitCalls ==
    /\ Idle
    /\ api_key = TRUE
    /\ now = 0
    /\ \E b \in Bodies : call = [NoCall EXCEPT !.messages = b]

CallValidate ==
    /\ call.fn = "none"
    /\ call' = [call EXCEPT !.fn = "validate_messages",
                            !.error = validate_messages(call.messages)]
    /\ UNCHANGED <<api_key, now, limiter_storage, session_store, req, resp, filtered,
                   pc, out, prov_hist, provider_calls, hits, served, nreq, nticks,
                   addr_hits, client, tasks, permitted>>

CallFilter ==
    /\ call.fn = "none"
    /\ call' = IF FilterRaises(call.messages)
               THEN [call EXCEPT !.fn = "filter_system_messages", !.raised = TRUE]
               ELSE [call EXCEPT !.fn = "filter_system_messages",
                                 !.result = filter_system_messages(call.messages)]
    /\ UNCHANGED <<api_key, now, limiter_storage, session_store, req, resp, filtered,
                   pc, out, prov_hist, provider_calls, hits, served, nreq, nticks,
                   addr_hits, client, tasks, permitted>>

NextCalls == CallValidate \/ CallFilter

SpecCalls == InitCalls /\ [][NextCalls]_vars

(***************************************************************************)
(* History kept for the properties: the admitted requests of the trailing  *)
(* minute per limiter key, and the requests let through to the handler per *)
(* resolved address since the start of its hour.                           *)
(***************************************************************************)
AddHit(h, t) ==
    LET recent == { p \in h : p[1] > t - RATE_WINDOW }
        before == { p \in recent : p[1] = t }
        n == IF before = {} THEN 0 ELSE (CHOOSE p \in before : TRUE)[2]
    IN (recent \ before) \cup { <<t, n + 1>> }

RECURSIVE SumHits(_)
SumHits(h) ==
    IF h = {} THEN 0
    ELSE LET p == CHOOSE q \in h : TRUE IN p[2] + SumHits(h \ {p})

Trailing(h, t) == SumHits({ p \in h : p[1] > t - RATE_WINDOW })

AddServed(sv, t) ==
    LET w == IF t - sv.since > SESSION_WINDOW THEN [since |-> t, n |-> 0] ELSE sv
    IN [w EXCEPT !.n = w.n + 1]

(***************************************************************************)
(* A request to a chat route, up to the response (or, on /api/chat, up to  *)
(* the StreamingResponse whose generator has not run yet).  In order:      *)
(*  - the body is validated when the arguments of the endpoint are built:  *)
(*    a ValueError of the field validator is answered with status 422 (no  *)
(*    handler for request-validation errors is installed), and neither the *)
(*    limiter nor the handler runs;                                        *)
(*  - the wrapper of @limiter.limit hits the limiter's storage and, over   *)
(*    the limit, raises RateLimitExceeded, answered with status 429;       *)
(*  - the handler runs.  The call of check_session_limits in it is         *)
(*    commented out, so session_store is left alone.                       *)
(***************************************************************************)
Outcomes == {"ok"} \cup ProviderErrors

\* Only the non-streaming call reads the outcome.
OutcomesFor(r) == IF r.route = "/api/chat-simple" THEN Outcomes ELSE {"ok"}

Hello == Msg("user", <<"hello">>)
Big == Msg("user", <<XBLOCK, XBLOCK>>)

ReqBodies ==
    { <<>>,
      Repeat(Hello, MAX_MESSAGES_PER_REQUEST),
      Repeat(Hello, MAX_MESSAGES_PER_REQUEST + 1),
      << Hello >>,
      << Big >>,
      << Msg("user", <<XBLOCK, XBLOCK, "rava">>) >>,
      << NoContent >>,
      << Hello, NoRole >>,
      << Hello, NotADict >>,
      << Hello, Msg("system", <<"JAILBREAK", "\n", " ", "Mode">>) >>,
      << Msg("system", <<"hello">>) >>,
      << Msg("system", <<"RAVA">>), Hello >>,
      << Msg("system", <<XBLOCK, XBLOCK>>), Hello >>,
      << Big, Hello >>,
      Repeat(Big, 4),
      Repeat(Big, 5),
      << Msg("tool", <<"hello">>) >> }

Requests ==
    [route : Routes, peer : {"10.0.0.1"}, xff : {<<>>}, body : ReqBodies]
        \cup [route : Routes, peer : Peers, xff : XffValues, body : {<< Hello >>}]

\* validate_messages and the endpoints on the requests explored, tabulated
\* (f @@ <<>> is f, enumerated once).
Validated == [b \in ReqBodies |-> validate_messages(b)] @@ <<>>

Handled ==
    [key_set \in BOOLEAN, r \in Requests, outcome \in Outcomes |->
        IF Validated[r.body] = "ok" THEN Endpoint(key_set, r, outcome)
        ELSE Raise(422, Validated[r.body])] @@ <<>>

ValidationError(detail) == [status |-> 422, detail |-> detail]
RateLimitExceeded == [status |-> 429, detail |-> "Rate limit exceeded: 100 per 1 minute"]

Request(r, outcome) ==
    /\ pc \in {"idle", "completed", "failed"}
    /\ nreq' = nreq + 1
    /\ req' = [route |-> r.route, peer |-> r.peer, xff |-> r.xff, body |-> r.body,
               at |-> now]
    /\ out' = <<>>
    /\ LET error == Validated[r.body]
           key == LimitKey(r)
           entry == LimiterIncr(limiter_storage, key, now)
           e == Handled[api_key, r, outcome]
       IN IF error # "ok"
          THEN /\ resp' = ValidationError(error)
               /\ filtered' = <<>> /\ pc' = "idle"
               /\ provider_calls' = 0 /\ prov_hist' = <<>>
               /\ UNCHANGED <<limiter_storage, hits, served, addr_hits>>
          ELSE /\ limiter_storage' = [limiter_storage EXCEPT ![key] = entry]
               /\ IF entry.count > RATE_LIMIT
                  THEN /\ resp' = RateLimitExceeded
                       /\ filtered' = <<>> /\ pc' = "idle"
                       /\ provider_calls' = 0 /\ prov_hist' = <<>>
                       /\ UNCHANGED <<hits, served, addr_hits>>
                  ELSE /\ resp' = [status |-> e.status, detail |-> e.detail]
                       /\ filtered' = e.filtered /\ pc' = e.pc
                       /\ provider_calls' = e.calls /\ prov_hist' = e.events
                       /\ hits' = [hits EXCEPT ![key] = AddHit(@, now)]
                       /\ addr_hits' = [addr_hits EXCEPT ![<<r.route, get_client_ip(r)>>]
                                                            = AddHit(@, now)]
                       /\ served' = IF api_key
                                    THEN [served EXCEPT ![get_client_ip(r)] = AddServed(@, now)]
                                    ELSE served
    /\ client' = "connected"
    /\ UNCHANGED <<api_key, now, session_store, nticks, call, tasks, permitted>>

TickSteps == {1, RATE_WINDOW}

Tick(d) ==
    /\ nticks < MaxTicks
    /\ nticks' = nticks + 1
    /\ now' = now + d
    /\ UNCHANGED <<api_key, limiter_storage, session_store, req, resp, filtered,
                   pc, out, prov_hist, provider_calls, hits, served, nreq, call,
                   addr_hits, client, tasks, permitted>>

(***************************************************************************)
(* generate_stream, one action per step of the generator.  The provider    *)
(* either fails the opening call, or returns a stream that yields chunks   *)
(* (each with choices[0].delta, whose content may be None), and then ends  *)
(* or raises.  What the provider raises is an Exception.                   *)
(***************************************************************************)
Event(kind, content) == [kind |-> kind, content |-> content]

DataChunk(content) == [content |-> content, done |-> FALSE]
DoneChunk == [content |-> "", done |-> TRUE]
ErrorChunk(e) == [error |-> e, done |-> TRUE]

NDeltas(h) == Cardinality({ i \in 1..Len(h) : h[i].kind = "delta" })

StreamFrame == <<api_key, now, limiter_storage, session_store, req, resp, filtered,
                 hits, served, nreq, nticks, call, addr_hits, client, tasks, permitted>>

\* client.chat.completions.create(stream=True) returns the stream.
StreamOpen ==
    /\ pc = "connecting"
    /\ pc' = "emitting"
    /\ provider_calls' = provider_calls + 1
    /\ UNCHANGED <<out, prov_hist>>
    /\ UNCHANGED StreamFrame

\* Mutant: the call that opens the stream made outside the try.
StreamOpenFailsUncaught(e) ==
    /\ pc = "connecting"
    /\ pc' = "raised"
    /\ provider_calls' = provider_calls + 1
    /\ prov_hist' = Append(prov_hist, Event("raise", e))
    /\ UNCHANGED out
    /\ UNCHANGED StreamFrame

\* client.chat.completions.create(stream=True) raises e.
StreamOpenFails(e) ==
    /\ pc = "connecting"
    /\ pc' = "failed"
    /\ provider_calls' = provider_calls + 1
    /\ prov_hist' = Append(prov_hist, Event("raise", e))
    /\ out' = Append(out, ErrorChunk(e))
    /\ UNCHANGED StreamFrame

\* Mutant: a delta without content relayed as an empty chunk.
StreamDeltaAlways(c) ==
    /\ pc = "emitting"
    /\ NDeltas(prov_hist) < MaxIncrements
    /\ prov_hist' = Append(prov_hist, Event("delta", c))
    /\ out' = Append(out, DataChunk(IF c # NONE THEN c ELSE ""))
    /\ UNCHANGED <<pc, provider_calls>>
    /\ UNCHANGED StreamFrame

\* The stream yields a chunk whose delta.content is c.
StreamDelta(c) ==
    /\ pc = "emitting"
    /\ NDeltas(prov_hist) < MaxIncrements
    /\ prov_hist' = Append(prov_hist, Event("delta", c))
    /\ out' = IF c # NONE THEN Append(out, DataChunk(c)) ELSE out
    /\ UNCHANGED <<pc, provider_calls>>
    /\ UNCHANGED StreamFrame

\* The stream is exhausted.
StreamEnd ==
    /\ pc = "emitting"
    /\ pc' = "completed"
    /\ prov_hist' = Append(prov_hist, Event("end", ""))
    /\ out' = Append(out, DoneChunk)
    /\ UNCHANGED provider_calls
    /\ UNCHANGED StreamFrame

\* Mutant: the completion signal sent from a finally, after the error chunk too.
StreamRaisesThenDone(e) ==
    /\ pc = "emitting"
    /\ pc' = "failed"
    /\ prov_hist' = Append(prov_hist, Event("raise", e))
    /\ out' = out \o << ErrorChunk(e), DoneChunk >>
    /\ UNCHANGED provider_calls
    /\ UNCHANGED StreamFrame

\* The iteration over the stream raises e.
StreamRaises(e) ==
    /\ pc = "emitting"
    /\ pc' = "failed"
    /\ prov_hist' = Append(prov_hist, Event("raise", e))
    /\ out' = Append(out, ErrorChunk(e))
    /\ UNCHANGED provider_calls
    /\ UNCHANGED StreamFrame

(***************************************************************************)
(* check_session_limits, line by line, as the requests in Tasks call it.   *)
(* session is a reference to the record in session_store, so every         *)
(* assignment to it is one to the store; count += 1 reads, then writes.    *)
(* The callers are coroutines of one event loop: chat and chat_simple are  *)
(* async def, and a coroutine keeps the loop until it awaits or returns.   *)
(* Each task also remembers the record it found (entry) and whether it     *)
(* reset it, for the properties.                                           *)
(***************************************************************************)
SessionFrame == <<api_key, now, limiter_storage, req, resp, filtered, pc, out, prov_hist,
                  provider_calls, hits, served, nreq, nticks, call, addr_hits, client>>

\* Mutant: the handlers declared def, and so run in the threads of a pool.
CanRunThreaded(t) == TRUE

\* check_session_limits has no await: no other call is inside it.
CanRun(t) == \A u \in Tasks \ {t} : tasks[u].pc \in {"ready", "done"}

\* current_time = time.time()
SessionCall(t, client_ip) ==
    /\ tasks[t].pc = "ready"
    /\ CanRun(t)
    /\ tasks' = [tasks EXCEPT ![t] = [NoTask EXCEPT !.pc = "L93",
                                                    !.client_ip = client_ip,
                                                    !.current_time = now,
                                                    !.entry = session_store[client_ip]]]
    /\ UNCHANGED <<session_store, permitted>>
    /\ UNCHANGED SessionFrame

\* session = session_store[client_ip]: the defaultdict makes the record.
SessionGet(t) ==
    /\ tasks[t].pc = "L93"
    /\ CanRun(t)
    /\ LET a == tasks[t].client_ip IN
       session_store' = IF session_store[a].seen THEN session_store
                        ELSE [session_store EXCEPT
                                ![a] = [seen |-> TRUE, count |-> 0, last_reset |-> now]]
    /\ tasks' = [tasks EXCEPT ![t].pc = "L96"]
    /\ UNCHANGED permitted
    /\ UNCHANGED SessionFrame

\* if current_time - session["last_reset"] > 3600: ...
SessionReset(t) ==
    /\ tasks[t].pc = "L96"
    /\ CanRun(t)
    /\ LET a == tasks[t].client_ip IN
       IF tasks[t].current_time - session_store[a].last_reset > SESSION_WINDOW
       THEN /\ session_store' = [session_store EXCEPT
                                   ![a].count = 0,
                                   ![a].last_reset = tasks[t].current_time]
            /\ permitted' = [permitted EXCEPT ![a] = 0]
            /\ tasks' = [tasks EXCEPT ![t].pc = "L101", ![t].was_reset = TRUE]
       ELSE /\ tasks' = [tasks EXCEPT ![t].pc = "L101"]
            /\ UNCHANGED <<session_store, permitted>>
    /\ UNCHANGED SessionFrame

\* Mutant: the rejected call counted as well.
SessionCheckCounting(t) ==
    /\ tasks[t].pc = "L101"
    /\ CanRun(t)
    /\ LET a == tasks[t].client_ip IN
       IF session_store[a].count >= SESSION_LIMIT
       THEN /\ tasks' = [tasks EXCEPT ![t].pc = "done", ![t].ret = FALSE]
            /\ session_store' = [session_store EXCEPT ![a].count = @ + 1]
       ELSE /\ tasks' = [tasks EXCEPT ![t].pc = "L104"]
            /\ UNCHANGED session_store
    /\ UNCHANGED permitted
    /\ UNCHANGED SessionFrame

\* if session["count"] >= 1000: return False
SessionCheck(t) ==
    /\ tasks[t].pc = "L101"
    /\ CanRun(t)
    /\ tasks' = IF session_store[tasks[t].client_ip].count >= SESSION_LIMIT
                THEN [tasks EXCEPT ![t].pc = "done", ![t].ret = FALSE]
                ELSE [tasks EXCEPT ![t].pc = "L104"]
    /\ UNCHANGED <<session_store, permitted>>
    /\ UNCHANGED SessionFrame

\* session["count"] += 1: the read.
SessionLoad(t) ==
    /\ tasks[t].pc = "L104"
    /\ CanRun(t)
    /\ tasks' = [tasks EXCEPT ![t].pc = "L104w",
                              ![t].count = session_store[tasks[t].client_ip].count]
    /\ UNCHANGED <<session_store, permitted>>
    /\ UNCHANGED SessionFrame

\* session["count"] += 1: the write; return True.
SessionStore(t) ==
    /\ tasks[t].pc = "L104w"
    /\ CanRun(t)
    /\ LET a == tasks[t].client_ip IN
       /\ session_store' = [session_store EXCEPT ![a].count = tasks[t].count + 1]
       /\ permitted' = [permitted EXCEPT ![a] = @ + 1]
    /\ tasks' = [tasks EXCEPT ![t].pc = "done", ![t].ret = TRUE]
    /\ UNCHANGED SessionFrame

(***************************************************************************)
(* The client of a streaming response goes away.  The generator has no     *)
(* await and asks nobody whether the client is still there: between two    *)
(* yields it runs, and waits for the provider, without the event loop      *)
(* running anything else.  The cancellation of the response can reach it   *)
(* only where it is suspended: before its first step, or at the yield of a *)
(* chunk, where GeneratorExit, which is no Exception, ends it.             *)
(***************************************************************************)
Disconnect ==
    /\ pc \in {"connecting", "emitting"}
    /\ client = "connected"
    /\ client' = "gone"
    /\ UNCHANGED <<api_key, now, limiter_storage, session_store, req, resp, filtered,
                   pc, out, prov_hist, provider_calls, hits, served, nreq, nticks, call,
                   addr_hits, tasks, permitted>>

\* The generator is suspended at the yield of a data chunk.
AtYield ==
    /\ pc = "emitting"
    /\ prov_hist # <<>>
    /\ prov_hist[Len(prov_hist)].kind = "delta"
    /\ prov_hist[Len(prov_hist)].content # NONE

Cancel ==
    /\ client = "gone"
    /\ pc = "connecting" \/ AtYield
    /\ pc' = "cancelled"
    /\ UNCHANGED <<api_key, now, limiter_storage, session_store, req, resp, filtered,
                   out, prov_hist, provider_calls, hits, served, nreq, nticks, call,
                   addr_hits, client, tasks, permitted>>

(***************************************************************************)
(* The requests explored, the states the server starts in, and the         *)
(* specification.                                                          *)
(***************************************************************************)
\* A server that has handled nothing yet.
Cold ==
    /\ Idle
    /\ now = 0

\* A server that took, on one key, 1 request at time 0 and 99 at time 59,
\* none of them with a forwarded-for header.
Burst(key) ==
    /\ now = RATE_WINDOW - 1
    /\ limiter_storage = [k \in Keys |-> IF k = key
                                         THEN [count |-> RATE_LIMIT, expiry |-> RATE_WINDOW]
                                         ELSE NoEntry]
    /\ hits = [k \in Keys |-> IF k = key
                              THEN { <<0, 1>>, <<RATE_WINDOW - 1, RATE_LIMIT - 1>> }
                              ELSE {}]
    /\ served = [a \in Addrs |-> IF a = key[2] /\ api_key
                                 THEN [since |-> 0, n |-> RATE_LIMIT]
                                 ELSE [since |-> 0, n |-> 0]]
    /\ session_store = [a \in Addrs |-> NoSession]
    /\ req = NoReq /\ resp = NoResp /\ filtered = <<>> /\ pc = "idle" /\ out = <<>>
    /\ prov_hist = <<>> /\ provider_calls = 0 /\ nreq = 0 /\ nticks = 0
    /\ addr_hits = [k \in Routes \X Addrs |-> IF k = key THEN hits[key] ELSE {}]
    /\ client = "connected"
    /\ tasks = [t \in Tasks |-> NoTask]
    /\ permitted = [a \in Addrs |-> 0]

\* A server that took from one peer, on each route, 100 requests at each of
\* the times 0, 60, 120, 180 and 240, and is now at time 300.
Busy(peer) ==
    /\ api_key
    /\ now = 5 * RATE_WINDOW
    /\ limiter_storage = [k \in Keys |-> IF k[2] = peer
                                         THEN [count |-> RATE_LIMIT, expiry |-> 5 * RATE_WINDOW]
                                         ELSE NoEntry]
    /\ hits = [k \in Keys |-> {}]
    /\ served = [a \in Addrs |-> IF a = peer
                                 THEN [since |-> 0, n |-> 10 * RATE_LIMIT]
                                 ELSE [since |-> 0, n |-> 0]]
    /\ session_store = [a \in Addrs |-> NoSession]
    /\ req = NoReq /\ resp = NoResp /\ filtered = <<>> /\ pc = "idle" /\ out = <<>>
    /\ prov_hist = <<>> /\ provider_calls = 0 /\ nreq = 0 /\ nticks = 0
    /\ addr_hits = [k \in Routes \X Addrs |-> {}]
    /\ client = "connected"
    /\ tasks = [t \in Tasks |-> NoTask]
    /\ permitted = [a \in Addrs |-> 0]

Init ==
    /\ api_key \in BOOLEAN
    /\ call = NoCall
    /\ \/ Cold
       \/ \E key \in Routes \X {"10.0.0.1"} : Burst(key)
       \/ Busy("10.0.0.1")

\* One request, from its arrival to the end of its response, on a server in
\* any of these states.
Next ==
    \/ /\ req = NoReq
       /\ \E r \in Requests : \E outcome \in OutcomesFor(r) : Request(r, outcome)
    \/ \E d \in TickSteps : Tick(d)
    \/ StreamOpen
    \/ \E e \in ProviderErrors : StreamOpenFails(e)
    \/ \E c \in DeltaContents : StreamDelta(c)
    \/ StreamEnd
    \/ \E e \in ProviderErrors : StreamRaises(e)

Spec == Init /\ [][Next]_vars

\* Requests one after the other, each with the same small body, from several
\* peers and with or without a forwarded-for header, as the clock advances.
RateRequests == { r \in Requests : r.body = << Hello >> }

NextRate ==
    \/ /\ nreq < MaxRequests
       /\ \E r \in RateRequests : \E outcome \in OutcomesFor(r) : Request(r, outcome)
    \/ \E d \in TickSteps : Tick(d)
    \/ StreamOpen
    \/ StreamEnd

InitRate == Init /\ api_key

SpecRate == InitRate /\ [][NextRate]_vars

\* One streaming response, whose client may go away while it is produced.
StreamRequests == { r \in RateRequests : r.route = "/api/chat" }

InitCancel ==
    /\ api_key = TRUE
    /\ call = NoCall
    /\ Cold

NextCancel ==
    \/ /\ req = NoReq
       /\ \E r \in StreamRequests : Request(r, "ok")
    \/ StreamOpen
    \/ \E e \in ProviderErrors : StreamOpenFails(e)
    \/ \E c \in DeltaContents : StreamDelta(c)
    \/ StreamEnd
    \/ \E e \in ProviderErrors : StreamRaises(e)
    \/ Disconnect
    \/ Cancel

SpecCancel == InitCancel /\ [][NextCancel]_vars

\* The store after n calls for one address were permitted from time 0 on,
\* an hour later.
Hour(a, n) ==
    /\ now = SESSION_WINDOW
    /\ session_store = [b \in Addrs |-> IF b = a
                                        THEN [seen |-> TRUE, count |-> n, last_reset |-> 0]
                                        ELSE NoSession]
    /\ permitted = [b \in Addrs |-> IF b = a THEN n ELSE 0]
    /\ limiter_storage = [k \in Keys |-> NoEntry]
    /\ hits = [k \in Keys |-> {}]
    /\ served = [b \in Addrs |-> [since |-> 0, n |-> 0]]
    /\ addr_hits = [k \in Routes \X Addrs |-> {}]
    /\ req = NoReq /\ resp = NoResp /\ filtered = <<>> /\ pc = "idle" /\ out = <<>>
    /\ prov_hist = <<>> /\ provider_calls = 0 /\ nreq = 0 /\ nticks = 0
    /\ client = "connected"
    /\ tasks = [t \in Tasks |-> NoTask]

\* Concurrent calls of check_session_limits, one per task, as the clock
\* advances.
InitSession ==
    /\ api_key = TRUE
    /\ call = NoCall
    /\ \/ Cold
       \/ \E n \in {SESSION_LIMIT - 1, SESSION_LIMIT} : Hour("10.0.0.1", n)

NextSession ==
    \/ \E t \in Tasks : \E a \in Addrs : SessionCall(t, a)
    \/ \E t \in Tasks : SessionGet(t)
    \/ \E t \in Tasks : SessionReset(t)
    \/ \E t \in Tasks : SessionCheck(t)
    \/ \E t \in Tasks : SessionLoad(t)
    \/ \E t \in Tasks : SessionStore(t)
    \/ \E d \in TickSteps : Tick(d)

SpecSession == InitSession /\ [][NextSession]_vars

(***************************************************************************)
(* Properties of the validator and of the filter.                          *)
(***************************************************************************)
HasContent(m) == m.isdict /\ "content" \in m.keys

\* The text holds an instance of pattern pat: its words, in any letter
\* casing, at increasing positions with only whitespace, and some, between.
Instance(pat, s) ==
    \E f \in [1..Len(pat) -> 1..Len(s)] :
        /\ \A k \in 1..Len(pat) : Lower(s[f[k]]) = pat[k]
        /\ \A k \in 1..(Len(pat) - 1) :
              /\ f[k + 1] > f[k] + 1
              /\ \A m \in (f[k] + 1)..(f[k + 1] - 1) : s[m] \in Spaces

Suspicious(s) == \E p \in 1..Len(SUSPICIOUS_PATTERNS) : Instance(SUSPICIOUS_PATTERNS[p], s)

WithinLimits(messages) ==
    /\ Len(messages) \in 1..MAX_MESSAGES_PER_REQUEST
    /\ \A i \in 1..Len(messages) :
          /\ messages[i].isdict
          /\ messages[i].keys = {"role", "content"}
          /\ StrLen(messages[i].content) <= MAX_MESSAGE_LENGTH

\* C4: validation fails when some message, at any position and with any
\* role, has content matching a suspicious pattern in any letter casing; a
\* conversation within the structural limits in which no message matches
\* is accepted.
C4_SuspiciousRejected ==
    call.fn = "validate_messages" =>
        LET messages == call.messages
            hit == \E i \in 1..Len(messages) :
                      HasContent(messages[i]) /\ Suspicious(messages[i].content)
        IN /\ hit => call.error # "ok"
           /\ (~hit /\ WithinLimits(messages)) => call.error = "ok"

C4_Witness ==
    /\ call.fn = "validate_messages"
    /\ Len(call.messages) = 2
    /\ call.messages[1] = Msg("user", <<"hello">>)
    /\ call.messages[2] = Msg("system", <<"JAILBREAK", "\n", " ", "Mode">>)
    /\ call.error = "Message contains suspicious content"

\* The system messages the allow-list keeps: the lowercased content holds a
\* keyword at some offset.
HasKeyword(s) ==
    \E kw \in allowed_system_content :
        \E o \in 0..Len(s) :
            /\ o + Len(kw) <= Len(s)
            /\ \A k \in 1..Len(kw) : Lower(s[o + k]) = kw[k]

Kept(messages) ==
    { i \in 1..Len(messages) :
        GetRole(messages[i]) # "system" \/ HasKeyword(messages[i].content) }

\* C5: the filter returns the input's subsequence, in order, of the
\* non-system messages and the system messages whose lowercased content
\* holds an allow-listed keyword.
C5_FilterSubsequence ==
    (call.fn = "filter_system_messages" /\ ~call.raised) =>
        LET messages == call.messages
            K == Kept(messages)
        IN /\ Len(call.result) = Cardinality(K)
           /\ \A i \in K : call.result[Cardinality({j \in K : j <= i})] = messages[i]

C5_Witness ==
    /\ call.fn = "filter_system_messages"
    /\ call.messages = << Msg("system", <<"hello">>), Msg("system", <<"RAVA">>) >>
    /\ call.result = << Msg("system", <<"RAVA">>) >>

(***************************************************************************)
(* Properties of the streaming generator.                                  *)
(***************************************************************************)
\* The positions of prov_hist holding an increment that carries content.
Increments(h) == { i \in 1..Len(h) : h[i].kind = "delta" /\ h[i].content # NONE }

\* The first chunks of out are the increments of h, one each, in order.
RelaysIncrements(o, h) ==
    LET D == Increments(h) IN
    /\ Len(o) >= Cardinality(D)
    /\ \A i \in D : o[Cardinality({ j \in D : j <= i })]
                        = [content |-> h[i].content, done |-> FALSE]

\* C1: while the provider stream runs, the chunks emitted are exactly the
\* increments that carried content, in the provider's order; once it has
\* ended without failure they are followed by exactly one chunk
\* {content: "", done: true}, and by nothing else.
C1_StreamSuccess ==
    /\ pc = "emitting" =>
          /\ RelaysIncrements(out, prov_hist)
          /\ Len(out) = Cardinality(Increments(prov_hist))
    /\ pc = "completed" =>
          /\ RelaysIncrements(out, prov_hist)
          /\ Len(out) = Cardinality(Increments(prov_hist)) + 1
          /\ out[Len(out)] = [content |-> "", done |-> TRUE]

C1_Witness ==
    /\ pc = "completed"
    /\ NDeltas(prov_hist) = 2
    /\ out = << [content |-> "Hel", done |-> FALSE], [content |-> "lo", done |-> FALSE],
                [content |-> "", done |-> TRUE] >>

\* C2: when the provider raises, at the opening call or after k increments,
\* the generator has emitted the k chunks, then exactly one done:true chunk
\* with an error field, and has ended; no exception leaves the generator.
C2_StreamFailure ==
    /\ pc # "raised"
    /\ (req.route = "/api/chat" /\ prov_hist # <<>>
            /\ prov_hist[Len(prov_hist)].kind = "raise") => pc = "failed"
    /\ pc = "failed" =>
          /\ prov_hist # <<>>
          /\ prov_hist[Len(prov_hist)].kind = "raise"
          /\ RelaysIncrements(out, prov_hist)
          /\ Len(out) = Cardinality(Increments(prov_hist)) + 1
          /\ out[Len(out)] = [error |-> prov_hist[Len(prov_hist)].content, done |-> TRUE]
          /\ ~ENABLED (StreamOpen \/ StreamEnd
                        \/ (\E c \in DeltaContents : StreamDelta(c))
                        \/ (\E e \in ProviderErrors : StreamOpenFails(e) \/ StreamRaises(e)))

C2_Witness ==
    /\ pc = "failed"
    /\ out = << [content |-> "Hel", done |-> FALSE],
                [error |-> "Connection error.", done |-> TRUE] >>

(***************************************************************************)
(* Properties of the request pipeline.                                     *)
(***************************************************************************)
Oversized(messages) ==
    \/ Len(messages) > MAX_MESSAGES_PER_REQUEST
    \/ \E i \in 1..Len(messages) :
          HasContent(messages[i]) /\ StrLen(messages[i].content) > MAX_MESSAGE_LENGTH

\* The limiter admitted req: after its hit the key's count is within the limit.
Admitted == limiter_storage[LimitKey(req)].count <= RATE_LIMIT

\* C3: a request whose conversation has more than 50 messages, or a message
\* of more than 5000 characters, is rejected on both routes, and the
\* provider is not called for it.
C3_OversizedRejected ==
    (req # NoReq /\ Oversized(req.body)) =>
        /\ resp.status \in 400..499
        /\ provider_calls = 0
        /\ pc = "idle"

C3_Witness ==
    /\ req.route = "/api/chat"
    /\ api_key
    /\ Len(req.body) = MAX_MESSAGES_PER_REQUEST + 1
    /\ resp.status = 422
    /\ provider_calls = 0

\* C8 as stated: without a credential every request fails with a 5xx status,
\* whatever its body and the state of the limiter, and the provider is not
\* called.
C8_Original ==
    (req # NoReq /\ ~api_key) =>
        /\ resp.status \in 500..599
        /\ provider_calls = 0

\* C8 as amended: without a credential the provider is never called, and
\* every request fails: with 422 when its body is invalid, else with 429
\* when it is over the route's rate limit, else with 500.
C8_NoCredential ==
    (req # NoReq /\ ~api_key) =>
        /\ provider_calls = 0
        /\ pc = "idle"
        /\ resp.status = IF validate_messages(req.body) # "ok" THEN 422
                         ELSE IF ~Admitted THEN 429
                         ELSE 500

C8_Witness ==
    /\ ~api_key
    /\ req.route = "/api/chat-simple"
    /\ req.body = << Hello >>
    /\ resp = [status |-> 500, detail |-> "OpenAI API key not set"]

Ceiling(route) == IF route = "/api/chat" THEN CHAT_MAX_CHARS ELSE SIMPLE_MAX_CHARS

\* C9: the provider is called only with filtered messages whose content
\* lengths sum to at most the route's ceiling; a request that reaches the
\* size check with more is rejected with 400, no provider call is made and
\* no chunk is emitted.
C9_SizeBudget ==
    req # NoReq =>
        LET valid == validate_messages(req.body) = "ok"
            kept == filter_system_messages(req.body)
        IN /\ provider_calls > 0 =>
                /\ filtered = kept
                /\ total_chars(filtered) <= Ceiling(req.route)
           /\ (valid /\ Admitted /\ api_key /\ total_chars(kept) > Ceiling(req.route)) =>
                /\ resp.status = 400
                /\ provider_calls = 0
                /\ pc = "idle"
                /\ out = <<>>

C9_Witness ==
    /\ req.route = "/api/chat-simple"
    /\ req.body = << Big, Hello >>
    /\ resp = [status |-> 400, detail |-> "Request too large"]
    /\ provider_calls = 0

\* C10 as stated: a request rejected for malformed, oversized or suspicious
\* input fails with 400, and every failure before streaming starts has a
\* status among 400, 429 and 500.
C10_Original ==
    req # NoReq =>
        /\ validate_messages(req.body) # "ok" => resp.status = 400
        /\ resp.status # 200 => resp.status \in {400, 429, 500}

(***************************************************************************)
(* Properties of the two rate-limiting gates.                              *)
(***************************************************************************)
\* C6 as stated: once 1000 requests of one client address were let through
\* in its current hour, a further request of that address fails with 429;
\* the first request of a new hour is let through.
C6_Original ==
    (req # NoReq /\ api_key /\ validate_messages(req.body) = "ok" /\ Admitted) =>
        LET sv == served[get_client_ip(req)] IN
        /\ sv.n > SESSION_LIMIT => resp.status = 429
        /\ sv.n = 1 => resp.status # 429

\* C7 as stated: the request that would be the 101st admitted within the
\* trailing minute on its key is rejected with 429, and a request is
\* rejected with 429 only when 100 were admitted within the trailing minute.
C7_Original ==
    (req # NoReq /\ validate_messages(req.body) = "ok") =>
        /\ resp.status # 429 => Trailing(hits[LimitKey(req)], req.at) <= RATE_LIMIT
        /\ resp.status = 429 => Trailing(hits[LimitKey(req)], req.at) >= RATE_LIMIT

(***************************************************************************)
(* Further properties of the filter and of the request pipeline.           *)
(***************************************************************************)
\* C14: filtering is idempotent: the filter applied to a conversation it
\* returned does not raise and returns that conversation unchanged.
C14_FilterIdempotent ==
    (call.fn = "filter_system_messages" /\ ~call.raised) =>
        /\ ~FilterRaises(call.result)
        /\ filter_system_messages(call.result) = call.result

C14_Witness ==
    /\ call.fn = "filter_system_messages"
    /\ call.messages = << Msg("system", <<"jailbreak", " ", "rava">>),
                          Msg("system", <<"hello">>) >>
    /\ call.result = << Msg("system", <<"jailbreak", " ", "rava">>) >>

\* C11 as stated: a request that arrives when its key has used up the
\* minute's limit is answered with the rate-limit error, whatever its body.
C11_Original ==
    [][(nreq' = nreq + 1
          /\ LimiterGet(limiter_storage, LimitKey(req'), now) >= RATE_LIMIT)
       => resp' = RateLimitExceeded]_vars

\* C12: when the provider call of /api/chat-simple fails, the response is
\* status 500 with the one fixed detail, whatever the failure was.
C12_GenericFailure ==
    (req.route = "/api/chat-simple" /\ prov_hist # <<>> /\ prov_hist[1].kind = "raise") =>
        resp = [status |-> 500, detail |-> "Failed to process request"]

C12_Witness ==
    /\ req.route = "/api/chat-simple"
    /\ prov_hist = << Event("raise", "Connection error.") >>
    /\ provider_calls = 1
    /\ resp.status = 500

RecognizedRoles == {"system", "user", "assistant"}

\* C18 as stated: the messages handed to the provider all have a recognized
\* role, and a request with a message of another role is rejected.
C18_Original ==
    (req # NoReq /\ api_key /\ Admitted) =>
        /\ (provider_calls > 0 \/ pc # "idle") =>
              \A i \in 1..Len(filtered) : GetRole(filtered[i]) \in RecognizedRoles
        /\ (\E i \in 1..Len(req.body) : GetRole(req.body[i]) \notin RecognizedRoles) =>
              resp.status \in 400..499

\* C19: when the filter leaves no message of a validated conversation, the
\* endpoint answers 400 "No valid messages provided", the provider is not
\* called and no stream is opened.
C19_NoValidMessages ==
    (req # NoReq /\ api_key /\ Admitted /\ validate_messages(req.body) = "ok"
        /\ filter_system_messages(req.body) = <<>>) =>
        /\ resp = [status |-> 400, detail |-> "No valid messages provided"]
        /\ provider_calls = 0
        /\ pc = "idle"
        /\ out = <<>>

C19_Witness ==
    /\ req.route = "/api/chat"
    /\ api_key
    /\ req.body = << Msg("system", <<"hello">>) >>
    /\ resp = [status |-> 400, detail |-> "No valid messages provided"]
    /\ provider_calls = 0

\* C13 as stated: the per-minute gate counts a request on its resolved
\* address: it is rejected only when 100 requests of that address were
\* admitted on the route within the trailing minute, and admitted only
\* when fewer were.
C13_Original ==
    (req # NoReq /\ validate_messages(req.body) = "ok") =>
        LET n == Trailing(addr_hits[<<req.route, get_client_ip(req)>>], req.at) IN
        /\ resp.status = 429 => n >= RATE_LIMIT
        /\ resp.status # 429 => n <= RATE_LIMIT

(***************************************************************************)
(* Further properties of the streaming generator.                          *)
(***************************************************************************)
\* The positions of out holding a done:true event.
DoneEvents(o) == { i \in 1..Len(o) : o[i].done }

\* Idle -> Connecting -> Emitting* -> (Completed | Failed): the stream is
\* open from the return of the opening call, and stays so at each increment.
Machine ==
    { <<"idle", "connecting">>, <<"connecting", "emitting">>, <<"connecting", "failed">>,
      <<"emitting", "completed">>, <<"emitting", "failed">> }

\* C15: a run of the streaming path moves along Idle -> Connecting ->
\* Emitting* -> (Completed | Failed) only; it emits at most one done:true
\* event and nothing after it; it has emitted exactly one when it is in
\* Completed or Failed, and none before; and it is there once the provider
\* stream has ended or failed.  After Completed or Failed nothing is pulled
\* or emitted.
C15_StateMachine ==
    /\ [](/\ pc \in {"idle", "connecting", "emitting", "completed", "failed"}
          /\ Cardinality(DoneEvents(out)) <= 1
          /\ \A i \in DoneEvents(out) : i = Len(out)
          /\ pc \in {"completed", "failed"} <=> Cardinality(DoneEvents(out)) = 1
          /\ (req.route = "/api/chat" /\ prov_hist # <<>>
                /\ prov_hist[Len(prov_hist)].kind \in {"end", "raise"})
                => pc \in {"completed", "failed"})
    /\ [][/\ pc' # pc => <<pc, pc'>> \in Machine
          /\ pc \in {"completed", "failed"} => (out' = out /\ prov_hist' = prov_hist)]_vars

C15_Witness ==
    /\ pc = "failed"
    /\ Len(prov_hist) = 3
    /\ prov_hist[1] = Event("delta", NONE)
    /\ prov_hist[2] = Event("delta", "lo")
    /\ out = << DataChunk("lo"), ErrorChunk("Request timed out.") >>

\* C16 as stated: once the client has gone, no further increment is pulled
\* from the provider stream and no further chunk is emitted.
C16_Original ==
    [][client = "gone" => (prov_hist' = prov_hist /\ out' = out)]_vars

C20_Frame ==
    [][/\ \A t \in Tasks :
             tasks'[t] # tasks[t] =>
                \A b \in Addrs \ {tasks'[t].client_ip} : session_store'[b] = session_store[b]
       /\ \A b \in Addrs :
             session_store'[b] # session_store[b] =>
                \E t \in Tasks : tasks'[t] # tasks[t] /\ tasks'[t].client_ip = b
       /\ \A t \in Tasks :
             (tasks[t].pc # "done" /\ tasks'[t].pc = "done"
                /\ tasks'[t].ret = FALSE /\ ~tasks'[t].was_reset) =>
                session_store'[tasks'[t].client_ip] = tasks'[t].entry]_vars

C20_Witness ==
    \E t \in Tasks :
        /\ tasks[t].pc = "done"
        /\ tasks[t].ret = FALSE
        /\ ~tasks[t].was_reset
        /\ tasks[t].client_ip = "10.0.0.1"
        /\ session_store["10.0.0.1"] = [seen |-> TRUE, count |-> SESSION_LIMIT, last_reset |-> 0]
        /\ session_store["10.0.0.2"].seen

====
